---- MODULE Spec2Model ----
(***************************************************************************)
(* Model of crypto_streamlit/streamlit_app.py: one Streamlit script that   *)
(* is re-run from the top on every interaction.  A pass loads the cached   *)
(* dataset and runs the stages selection/current price, trend, forecast,   *)
(* volatility ranking + recommendation, correlation and decomposition in   *)
(* program order; an uncaught exception ends the pass.                      *)
(*                                                                         *)
(* Numbers: dates are day numbers, returns and prices are integers.  A     *)
(* variance is kept as the exact fraction num/den and a Pearson            *)
(* coefficient as num/sqrt(den2), compared by cross-multiplication, so the *)
(* model is the real-number meaning of the pandas calls (no rounding).     *)
(* A nullable value is <<>> (NaN / None) or <<v>>.                         *)
(***************************************************************************)
EXTENDS Integers, Sequences, FiniteSets

\* ------------------------------------------------------------- bounds
MaxRows == 3
MaxDate == 3
NumVolCoins == 6
NumCorrDates == 3

\* ------------------------------------------------- program constants
HorizonDays == 30
HeadN == 5
Period == 30

\* ------------------------------------------------------------ values
NaN == <<>>
Some(v) == <<v>>
IsNaN(x) == x = <<>>
NotNull(x) == x # <<>>
Val(x) == x[1]

Min(a, b) == IF a <= b THEN a ELSE b
Range(s) == {s[i] : i \in 1..Len(s)}

RECURSIVE Sum(_)
Sum(s) == IF s = <<>> THEN 0 ELSE Head(s) + Sum(Tail(s))

RECURSIVE SumSq(_)
SumSq(s) == IF s = <<>> THEN 0 ELSE Head(s) * Head(s) + SumSq(Tail(s))

RECURSIVE SumProd(_, _)
SumProd(s, t) == IF s = <<>> THEN 0 ELSE Head(s) * Head(t) + SumProd(Tail(s), Tail(t))

\* Coin identifiers in alphabetical order (the order groupby and pivot_table
\* give their keys).
CoinNames == <<"A", "B", "C", "D", "E", "F", "G", "H">>
CoinRank(c) == CHOOSE i \in 1..Len(CoinNames) : CoinNames[i] = c

\* One row of cleaned_crypto.csv.
Row(d, c, close, mcap, ret) ==
    [Date |-> d, Coin |-> c, Close |-> close, Marketcap |-> mcap, Return |-> ret]

Columns == <<"Date", "Coin", "Close", "Marketcap", "Return">>

\* A DataFrame: its rows, its column labels and its index.
Frame(rows) == [rows |-> rows, columns |-> Columns, index |-> "RangeIndex"]

\* ------------------------------------------------- Series / DataFrame
\* Series.unique(): the distinct values in order of first appearance.
RECURSIVE Unique(_)
Unique(s) ==
    IF s = <<>> THEN <<>>
    ELSE LET u == Unique(SubSeq(s, 1, Len(s) - 1))
             x == s[Len(s)]
         IN IF x \in Range(u) THEN u ELSE Append(u, x)

CoinColumn(rows) == [i \in 1..Len(rows) |-> rows[i].Coin]
DateColumn(rows) == [i \in 1..Len(rows) |-> rows[i].Date]

\* df[df['Coin'] == coin]
FilterCoin(rows, coin) == SelectSeq(rows, LAMBDA r : r.Coin = coin)

\* sort_values('Date'): ascending.  The input format has one row per
\* (Coin, Date), so the rows of one coin have no equal dates to order.
RECURSIVE InsertByDate(_, _)
InsertByDate(sorted, r) ==
    IF sorted = <<>> THEN <<r>>
    ELSE IF sorted[Len(sorted)].Date <= r.Date THEN Append(sorted, r)
    ELSE Append(InsertByDate(SubSeq(sorted, 1, Len(sorted) - 1), r), sorted[Len(sorted)])

RECURSIVE SortByDate(_)
SortByDate(rows) ==
    IF rows = <<>> THEN <<>>
    ELSE InsertByDate(SortByDate(SubSeq(rows, 1, Len(rows) - 1)), rows[Len(rows)])

\* Ascending sequence of a finite set of integers.
RECURSIVE SortedSeq(_)
SortedSeq(S) ==
    IF S = {} THEN <<>>
    ELSE LET m == CHOOSE x \in S : \A y \in S : x <= y
         IN <<m>> \o SortedSeq(S \ {m})

\* Keys of a groupby / pivot on Coin: the coins present, sorted.
SortedCoins(S) == SelectSeq(CoinNames, LAMBDA c : c \in S)

\* ------------------------------------------------------- volatility
\* The non-null Return values of one coin, in row order.
ReturnValues(rows, c) ==
    LET rs == SelectSeq(rows, LAMBDA r : r.Coin = c /\ NotNull(r.Return))
    IN [i \in 1..Len(rs) |-> Val(rs[i].Return)]

\* Series.std(): sample standard deviation (ddof = 1) of the non-null values,
\* NaN for fewer than two.  Kept as the variance num/den; the order of two
\* standard deviations is the order of their variances.
Std(xs) ==
    LET n == Len(xs)
    IN IF n < 2 THEN NaN
       ELSE Some([num |-> n * SumSq(xs) - Sum(xs) * Sum(xs), den |-> n * (n - 1)])

VolLeq(a, b) == a.num * b.den <= b.num * a.den
VolLess(a, b) == a.num * b.den < b.num * a.den

\* df.groupby('Coin')['Return'].std().reset_index().rename(...)
GroupbyStd(rows) ==
    LET keys == SortedCoins(Range(CoinColumn(rows)))
    IN [i \in 1..Len(keys) |->
           [Coin |-> keys[i], Volatility |-> Std(ReturnValues(rows, keys[i]))]]

\* Stable insertion of r into a sequence ordered by Volatility.
RECURSIVE InsertByVolatility(_, _, _)
InsertByVolatility(sorted, r, ascending) ==
    IF sorted = <<>> THEN <<r>>
    ELSE LET last == sorted[Len(sorted)]
             keep == IF ascending
                     THEN VolLeq(Val(last.Volatility), Val(r.Volatility))
                     ELSE VolLeq(Val(r.Volatility), Val(last.Volatility))
         IN IF keep THEN Append(sorted, r)
            ELSE Append(InsertByVolatility(SubSeq(sorted, 1, Len(sorted) - 1), r, ascending),
                        last)

RECURSIVE SortDefined(_, _)
SortDefined(t, ascending) ==
    IF t = <<>> THEN <<>>
    ELSE InsertByVolatility(SortDefined(SubSeq(t, 1, Len(t) - 1), ascending),
                            t[Len(t)], ascending)

\* A wrong sort_values: NaN rows first (na_position='first').
SortVolatilityNaFirst(table, ascending) ==
    SelectSeq(table, LAMBDA r : IsNaN(r.Volatility))
        \o SortDefined(SelectSeq(table, LAMBDA r : NotNull(r.Volatility)), ascending)

\* A wrong sort_values: the ascending flag is ignored.
SortVolatilityAscOnly(table, ascending) ==
    SortDefined(SelectSeq(table, LAMBDA r : NotNull(r.Volatility)), TRUE)
        \o SelectSeq(table, LAMBDA r : IsNaN(r.Volatility))

\* volatility_df.sort_values('Volatility', ascending=...): the defined values
\* in order, NaN rows last (na_position='last') in either direction.  Rows of
\* equal volatility keep the table's order, as the sort does on short tables;
\* the same table always sorts to the same result.
SortVolatility(table, ascending) ==
    SortDefined(SelectSeq(table, LAMBDA r : NotNull(r.Volatility)), ascending)
        \o SelectSeq(table, LAMBDA r : IsNaN(r.Volatility))

\* DataFrame.head(n)
HeadRows(t, n) == SubSeq(t, 1, Min(n, Len(t)))

\* A wrong recommendation: the last row of the ascending table.
RecommendedLast(table) ==
    LET h == SortVolatility(table, TRUE)
    IN IF h = <<>> THEN NaN ELSE Some(h[Len(h)].Coin)

\* volatility_df.sort_values('Volatility').head(1)['Coin'].values[0];
\* NaN stands for the IndexError of an empty table.
Recommended(table) ==
    LET h == HeadRows(SortVolatility(table, TRUE), 1)
    IN IF h = <<>> THEN NaN ELSE Some(h[1].Coin)

\* ------------------------------------------------------ correlation
\* aggfunc='mean' of the non-null Return values of one (Date, Coin) group;
\* exact for the single observation per (Date, Coin) of the input format.
PivotCell(rows, d, c) ==
    LET rs == SelectSeq(rows, LAMBDA r : r.Date = d /\ r.Coin = c /\ NotNull(r.Return))
        vs == [i \in 1..Len(rs) |-> Val(rs[i].Return)]
    IN IF Len(rs) = 0 THEN NaN ELSE Some(Sum(vs) \div Len(vs))

\* A wrong pivot: every coin and date of the dataset is kept.
PivotTableKeepAll(rows) ==
    LET idx == SortedSeq(Range(DateColumn(rows)))
        cols == SortedCoins(Range(CoinColumn(rows)))
    IN [index |-> idx, columns |-> cols,
        cell |-> [k \in Range(idx) \X Range(cols) |-> PivotCell(rows, k[1], k[2])]]

\* df.pivot_table(index='Date', columns='Coin', values='Return'): groups whose
\* mean is NaN are dropped before unstacking (dropna=True), so only dates and
\* coins with at least one non-null Return become rows and columns.
PivotTable(rows) ==
    LET obs == {<<rows[i].Date, rows[i].Coin>> :
                    i \in {j \in 1..Len(rows) : NotNull(rows[j].Return)}}
        idx == SortedSeq({k[1] : k \in obs})
        cols == SortedCoins({k[2] : k \in obs})
    IN [index |-> idx, columns |-> cols,
        cell |-> [k \in Range(idx) \X Range(cols) |-> PivotCell(rows, k[1], k[2])]]

\* pivot_df.dropna(): the rows without any NaN cell.
DropNa(p) ==
    LET idx == SelectSeq(p.index,
                         LAMBDA d : \A c \in Range(p.columns) : NotNull(p.cell[<<d, c>>]))
    IN [index |-> idx, columns |-> p.columns,
        cell |-> [k \in Range(idx) \X Range(p.columns) |-> p.cell[k]]]

\* A wrong Pearson: the zero divisor is not caught, so an undefined pair gets
\* a number instead of NaN.
PearsonUnguarded(p, x, y) ==
    LET ds == SelectSeq(p.index,
                        LAMBDA d : NotNull(p.cell[<<d, x>>]) /\ NotNull(p.cell[<<d, y>>]))
        xs == [i \in 1..Len(ds) |-> Val(p.cell[<<ds[i], x>>])]
        ys == [i \in 1..Len(ds) |-> Val(p.cell[<<ds[i], y>>])]
        n == Len(ds)
    IN Some([num |-> n * SumProd(xs, ys) - Sum(xs) * Sum(ys),
             den2 |-> (n * SumSq(xs) - Sum(xs) * Sum(xs)) * (n * SumSq(ys) - Sum(ys) * Sum(ys))])

\* One entry of DataFrame.corr() (Pearson, min_periods=1): over the rows where
\* both columns are non-null, covxy / sqrt(ssqdx * ssqdy), NaN when there is no
\* such row or the divisor is 0.  Kept as num / sqrt(den2), both scaled by the
\* square of the row count.
Pearson(p, x, y) ==
    LET ds == SelectSeq(p.index,
                        LAMBDA d : NotNull(p.cell[<<d, x>>]) /\ NotNull(p.cell[<<d, y>>]))
        xs == [i \in 1..Len(ds) |-> Val(p.cell[<<ds[i], x>>])]
        ys == [i \in 1..Len(ds) |-> Val(p.cell[<<ds[i], y>>])]
        n == Len(ds)
        cov == n * SumProd(xs, ys) - Sum(xs) * Sum(ys)
        ssqdx == n * SumSq(xs) - Sum(xs) * Sum(xs)
        ssqdy == n * SumSq(ys) - Sum(ys) * Sum(ys)
    IN IF n < 1 \/ ssqdx * ssqdy = 0 THEN NaN
       ELSE Some([num |-> cov, den2 |-> ssqdx * ssqdy])

\* pivot_df_clean.corr()
Corr(p) == [k \in Range(p.columns) \X Range(p.columns) |-> Pearson(p, k[1], k[2])]

\* Order of two coefficients a.num/sqrt(a.den2) <= b.num/sqrt(b.den2).
CoefLeq(a, b) ==
    IF a.num < 0
    THEN b.num >= 0 \/ a.num * a.num * b.den2 >= b.num * b.num * a.den2
    ELSE b.num >= 0 /\ a.num * a.num * b.den2 <= b.num * b.num * a.den2

CoefIsOne(a) == a.num > 0 /\ a.num * a.num = a.den2
CoefInUnitRange(a) == a.num * a.num <= a.den2

\* Stable insertion of r into a sequence of descending coefficients.
RECURSIVE InsertByCoef(_, _)
InsertByCoef(sorted, r) ==
    IF sorted = <<>> THEN <<r>>
    ELSE LET last == sorted[Len(sorted)]
         IN IF CoefLeq(r.Coef, last.Coef) THEN Append(sorted, r)
            ELSE Append(InsertByCoef(SubSeq(sorted, 1, Len(sorted) - 1), r), last)

RECURSIVE SortByCoefDesc(_)
SortByCoefDesc(t) ==
    IF t = <<>> THEN <<>>
    ELSE InsertByCoef(SortByCoefDesc(SubSeq(t, 1, Len(t) - 1)), t[Len(t)])

\* A wrong extraction: the NaN entries are dropped but the rows are not sorted.
SelectedCorrUnsorted(cols, matrix, coin) ==
    LET keep == SelectSeq(cols, LAMBDA c : NotNull(matrix[<<c, coin>>]))
    IN [i \in 1..Len(keep) |-> [Coin |-> keep[i], Coef |-> Val(matrix[<<keep[i], coin>>])]]

\* corr_matrix[[coin]].dropna().sort_values(by=coin, ascending=False)
SelectedCorr(cols, matrix, coin) ==
    LET keep == SelectSeq(cols, LAMBDA c : NotNull(matrix[<<c, coin>>]))
    IN SortByCoefDesc([i \in 1..Len(keep) |->
                          [Coin |-> keep[i], Coef |-> Val(matrix[<<keep[i], coin>>])]])

\* --------------------------------------------------------- forecast
\* Prophet.fit raises ValueError for fewer than two rows with non-null y.
FitFails(rows) == Len(SelectSeq(rows, LAMBDA r : NotNull(r.Close))) < 2

\* Prophet.history_dates: the sorted distinct ds of the frame given to fit.
HistoryDates(rows) == SortedSeq(Range(DateColumn(rows)))

\* A wrong future frame: the horizon starts on the last historical date.
MakeFutureFromLast(history, periods) ==
    history \o [i \in 1..periods |-> history[Len(history)] + i - 1]

\* make_future_dataframe(periods): the history dates followed by the `periods`
\* days after the last one (freq='D', include_history=True).
MakeFuture(history, periods) ==
    history \o [i \in 1..periods |-> history[Len(history)] + i]

\* ---------------------------------------------------- decomposition
\* STL(series, period).fit(): succeeds on a complete series of at least two
\* periods; on a shorter one, or one with NaN, the library may raise.
STLOutcomes(rows) ==
    IF Len(rows) >= 2 * Period /\ \A i \in 1..Len(rows) : NotNull(rows[i].Close)
    THEN {"ok"} ELSE {"ok", "error"}

\* coin_df.set_index('Date', inplace=True): Date leaves the columns and
\* becomes the index of the same object.
SetIndexDate(f) ==
    [f EXCEPT !.index = "Date",
              !.columns = SelectSeq(f.columns, LAMBDA c : c # "Date")]

\* ---------------------------------------------- the script's control
\* The stages of one pass, in program order.
StageOrder == <<"select", "trend", "forecast", "volatility", "correlation", "decompose">>

StageAfter(stage) ==
    LET i == CHOOSE j \in 1..Len(StageOrder) : StageOrder[j] = stage
    IN IF i = Len(StageOrder) THEN "done" ELSE StageOrder[i + 1]

\* A wrong control flow: a stage's exception is swallowed and the pass goes on.
NextPcKeepGoing(stage, raised) == StageAfter(stage)

\* Statements run in sequence; an uncaught exception stops the script.
NextPc(stage, raised) == IF raised THEN "failed" ELSE StageAfter(stage)

\* A wrong selection: the rows of the coin are not sorted.
CoinFrameUnsorted(h, r, sel) ==
    LET rows == IF IsNaN(sel) THEN <<>> ELSE FilterCoin(h[r].rows, Val(sel))
    IN [heap |-> Append(h, Frame(rows)), ref |-> Len(h) + 1]

\* A wrong selection: the filtered, sorted rows are written back into the
\* loaded frame and coin_df is bound to that same object.
CoinFrameInPlace(h, r, sel) ==
    LET rows == IF IsNaN(sel) THEN <<>> ELSE SortByDate(FilterCoin(h[r].rows, Val(sel)))
    IN [heap |-> [h EXCEPT ![r] = Frame(rows)], ref |-> r]

\* df[df['Coin'] == selected_coin].sort_values('Date').copy(): a new frame
\* object; the frame behind r is only read.  sel is NaN for selectbox's None,
\* which no row equals.
CoinFrame(h, r, sel) ==
    LET rows == IF IsNaN(sel) THEN <<>> ELSE SortByDate(FilterCoin(h[r].rows, Val(sel)))
    IN [heap |-> Append(h, Frame(rows)), ref |-> Len(h) + 1]

\* ------------------------------------------------------------ state
VARIABLES
    cache,          \* the DataFrame st.cache_data holds for load_data()
    selected_coin,  \* value of the sidebar selectbox
    drop_na,        \* value of the sidebar checkbox
    pc,             \* the stage the pass is about to run
    failed,         \* the stage whose exception ended the pass
    out,            \* the stages that have produced their output in this pass
    heap,           \* the DataFrame objects of this pass, by reference
    df,             \* reference of the loaded frame
    coin_df,        \* reference of the selected coin's frame
    coins,
    latest,
    forecast,       \* the ds column of the forecast frame
    volatility_df,
    most_stable,
    most_volatile,
    recommended,
    pivot_df_clean,
    corr_matrix,
    selected_corr,
    warned,         \* st.warning("No correlation data available ...") was shown
    shown           \* history: every (volatility_df, recommended) a pass has shown

control == <<pc, failed, out>>
widgets == <<selected_coin, drop_na>>
frames == <<heap, df, coin_df>>
selection == <<coins, latest>>
ranking == <<volatility_df, most_stable, most_volatile, recommended, shown>>
correlation == <<pivot_df_clean, corr_matrix, selected_corr, warned>>
vars == <<cache, control, widgets, frames, selection, forecast, ranking, correlation>>

\* ------------------------------------------------------- the inputs
MainCoins == {"A", "B"}

\* Rows of the general datasets: a Close of A may be null, Marketcap follows
\* Close (unit supply) and the Return of B's first calendar day is null.
MainRows ==
    {Row(k[1], k[2], IF k[3] THEN Some(10 + k[1]) ELSE NaN,
         IF k[3] THEN Some(10 + k[1]) ELSE NaN,
         IF k[2] = "B" /\ k[1] = 1 THEN NaN ELSE Some(k[1])) :
        k \in {t \in (1..MaxDate) \X MainCoins \X BOOLEAN : t[2] = "A" \/ t[3]}}

\* Every dataset of at most n rows, in any row order, with one row per
\* (Coin, Date) at most.
RECURSIVE DatasetsUpTo(_)
DatasetsUpTo(n) ==
    IF n = 0 THEN {<<>>}
    ELSE LET S == DatasetsUpTo(n - 1)
         IN S \cup {Append(s, r) : <<s, r>> \in
                       {k \in S \X MainRows :
                           \A i \in 1..Len(k[1]) :
                               k[1][i].Coin # k[2].Coin \/ k[1][i].Date # k[2].Date}}

MainDatasets == DatasetsUpTo(MaxRows)

\* One day of a coin's profile: a row with the given Return, or no row.
Obs(ret) == [present |-> TRUE, ret |-> ret]
NoRow == [present |-> FALSE, ret |-> NaN]

\* Rows of one coin whose Return on day i is profile[i].ret (no row where
\* profile[i] is NoRow).
RECURSIVE ProfileRows(_, _)
ProfileRows(c, profile) ==
    IF profile = <<>> THEN <<>>
    ELSE LET d == Len(profile)
             before == ProfileRows(c, SubSeq(profile, 1, d - 1))
         IN IF ~profile[d].present THEN before
            ELSE Append(before, Row(d, c, Some(10 + d), Some(10 + d), profile[d].ret))

\* The dataset, sorted by (Coin, Date), in which coin names[i] has profile f[names[i]].
RECURSIVE ProfileDataset(_, _)
ProfileDataset(names, f) ==
    IF names = <<>> THEN <<>>
    ELSE ProfileDataset(SubSeq(names, 1, Len(names) - 1), f)
            \o ProfileRows(names[Len(names)], f[names[Len(names)]])

\* Volatility datasets: more coins than a top-n view shows.  A coin has either
\* two Returns whose spread (0, 1 or 2) goes with the coin, so that the table
\* has ties and is not in coin order, or fewer than two: a single row (coins
\* of odd rank) or two rows of which the first day's Return is null.
VolCoins == SubSeq(CoinNames, 1, NumVolCoins)
VolProfile(c, defined) ==
    IF defined THEN <<Obs(Some(0)), Obs(Some((2 * CoinRank(c)) % 3))>>
    ELSE IF CoinRank(c) % 2 = 1 THEN <<Obs(Some(1))>>
    ELSE <<Obs(NaN), Obs(Some(1))>>
VolDatasets ==
    {ProfileDataset(VolCoins, [c \in Range(VolCoins) |-> VolProfile(c, defined[c])]) :
        defined \in [Range(VolCoins) -> BOOLEAN]}

\* Correlation datasets over three coins: A has Return d on every day d, B may
\* lack rows, C has every row with a Return that is null or alternates 1, 0.
CorrDates == 1..NumCorrDates
CorrDatasets ==
    {ProfileDataset(<<"A", "B", "C">>,
                    [c \in {"A", "B", "C"} |->
                        IF c = "A" THEN [d \in CorrDates |-> Obs(Some(d))]
                        ELSE IF c = "B" THEN b ELSE cc]) :
        b \in [CorrDates -> {NoRow, Obs(Some(0)), Obs(Some(1))}],
        cc \in {[d \in CorrDates |-> Obs(IF known[d] THEN Some(d % 2) ELSE NaN)] :
                   known \in [CorrDates -> BOOLEAN]}}

\* ------------------------------------------------------- operations
\* The state in which a pass starts: nothing of the script has run.
Fresh ==
    /\ pc = "load" /\ failed = NaN /\ out = <<>>
    /\ heap = <<>> /\ df = 0 /\ coin_df = 0
    /\ coins = <<>> /\ latest = NaN /\ forecast = NaN
    /\ volatility_df = NaN /\ most_stable = NaN /\ most_volatile = NaN
    /\ recommended = NaN
    /\ pivot_df_clean = NaN /\ corr_matrix = NaN /\ selected_corr = NaN
    /\ warned = FALSE

InitWith(datasets) ==
    /\ cache \in datasets
    /\ selected_coin = NaN
    /\ drop_na = TRUE
    /\ shown = {}
    /\ Fresh

Init == InitWith(MainDatasets)
InitVol == InitWith(VolDatasets)
InitCorr == InitWith(CorrDatasets)

\* df = load_data(): st.cache_data hands out a copy of the cached frame.
LoadData ==
    /\ pc = "load"
    /\ heap' = <<Frame(cache)>>
    /\ df' = 1
    /\ pc' = "select"
    /\ UNCHANGED <<cache, failed, out, widgets, coin_df, selection, forecast,
                   ranking, correlation>>

\* Coin selection and current price.  The selectbox returns the option chosen
\* before, the first option on the first pass and None without options;
\* coin_df.iloc[-1] raises IndexError on an empty frame.
SelectCoin ==
    /\ pc = "select"
    /\ LET options == Unique(CoinColumn(heap[df].rows))
           sel == IF NotNull(selected_coin) THEN selected_coin
                  ELSE IF options = <<>> THEN NaN ELSE Some(options[1])
           made == CoinFrame(heap, df, sel)
           rows == made.heap[made.ref].rows
           raised == rows = <<>>
       IN /\ coins' = options
          /\ selected_coin' = sel
          /\ heap' = made.heap
          /\ coin_df' = made.ref
          /\ latest' = IF raised THEN NaN ELSE Some(rows[Len(rows)])
          /\ failed' = IF raised THEN Some("select") ELSE failed
          /\ out' = IF raised THEN out ELSE Append(out, "select")
          /\ pc' = NextPc("select", raised)
    /\ UNCHANGED <<cache, drop_na, df, forecast, ranking, correlation>>

\* Price and market capitalisation charts: a projection of coin_df.
Trend ==
    /\ pc = "trend"
    /\ out' = Append(out, "trend")
    /\ pc' = NextPc("trend", FALSE)
    /\ UNCHANGED <<cache, failed, widgets, frames, selection, forecast, ranking,
                   correlation>>

\* Prophet fit and 30-day forecast.
Forecast ==
    /\ pc = "forecast"
    /\ LET rows == heap[coin_df].rows
           raised == FitFails(rows)
       IN /\ forecast' = IF raised THEN NaN
                         ELSE Some(MakeFuture(HistoryDates(rows), HorizonDays))
          /\ failed' = IF raised THEN Some("forecast") ELSE failed
          /\ out' = IF raised THEN out ELSE Append(out, "forecast")
          /\ pc' = NextPc("forecast", raised)
    /\ UNCHANGED <<cache, widgets, frames, selection, ranking, correlation>>

\* Volatility table, its two top-5 views and the buyer recommendation.
Volatility ==
    /\ pc = "volatility"
    /\ LET table == GroupbyStd(heap[df].rows)
           rec == Recommended(table)
           raised == IsNaN(rec)
       IN /\ volatility_df' = Some(table)
          /\ most_stable' = Some(HeadRows(SortVolatility(table, TRUE), HeadN))
          /\ most_volatile' = Some(HeadRows(SortVolatility(table, FALSE), HeadN))
          /\ recommended' = rec
          /\ shown' = IF raised THEN shown ELSE shown \cup {<<table, rec>>}
          /\ failed' = IF raised THEN Some("volatility") ELSE failed
          /\ out' = IF raised THEN out ELSE Append(out, "volatility")
          /\ pc' = NextPc("volatility", raised)
    /\ UNCHANGED <<cache, widgets, frames, selection, forecast, correlation>>

\* Return pivot, optional dropna, correlation matrix and the selected coin's
\* column, or the warning when the coin is no column.
Correlation ==
    /\ pc = "correlation"
    /\ LET pivot_df == PivotTable(heap[df].rows)
           clean == IF drop_na THEN DropNa(pivot_df) ELSE pivot_df
           matrix == Corr(clean)
           known == Val(selected_coin) \in Range(clean.columns)
       IN /\ pivot_df_clean' = Some(clean)
          /\ corr_matrix' = Some(matrix)
          /\ selected_corr' = IF known
                              THEN Some(SelectedCorr(clean.columns, matrix, Val(selected_coin)))
                              ELSE NaN
          /\ warned' = ~known
    /\ out' = Append(out, "correlation")
    /\ pc' = NextPc("correlation", FALSE)
    /\ UNCHANGED <<cache, failed, widgets, frames, selection, forecast, ranking>>

\* Seasonal decomposition: coin_df is re-indexed in place, then STL is fitted.
Decompose ==
    /\ pc = "decompose"
    /\ heap' = [heap EXCEPT ![coin_df] = SetIndexDate(@)]
    /\ \E outcome \in STLOutcomes(heap[coin_df].rows) :
          LET raised == outcome = "error"
          IN /\ failed' = IF raised THEN Some("decompose") ELSE failed
             /\ out' = IF raised THEN out ELSE Append(out, "decompose")
             /\ pc' = NextPc("decompose", raised)
    /\ UNCHANGED <<cache, widgets, df, coin_df, selection, forecast, ranking,
                   correlation>>

\* An interaction re-runs the script from the top: every name of the previous
\* pass is gone.
Rerun ==
    /\ pc' = "load" /\ failed' = NaN /\ out' = <<>>
    /\ heap' = <<>> /\ df' = 0 /\ coin_df' = 0
    /\ coins' = <<>> /\ latest' = NaN /\ forecast' = NaN
    /\ volatility_df' = NaN /\ most_stable' = NaN /\ most_volatile' = NaN
    /\ recommended' = NaN
    /\ pivot_df_clean' = NaN /\ corr_matrix' = NaN /\ selected_corr' = NaN
    /\ warned' = FALSE
    /\ UNCHANGED <<cache, shown>>

\* The user picks another option of the selectbox, once the pass has ended.
ChooseCoin ==
    /\ pc \in {"done", "failed"}
    /\ \E c \in Range(coins) :
          /\ Some(c) # selected_coin
          /\ selected_coin' = Some(c)
    /\ UNCHANGED drop_na
    /\ Rerun

\* The user toggles the checkbox, which exists once the pass has reached it.
ToggleDropNa ==
    /\ pc \in {"done", "failed"}
    /\ "correlation" \in Range(out)
    /\ drop_na' = ~drop_na
    /\ UNCHANGED selected_coin
    /\ Rerun

Next ==
    \/ LoadData
    \/ SelectCoin
    \/ Trend
    \/ Forecast
    \/ Volatility
    \/ Correlation
    \/ Decompose
    \/ ChooseCoin
    \/ ToggleDropNa

Spec == Init /\ [][Next]_vars
SpecVol == InitVol /\ [][Next]_vars
SpecCorr == InitCorr /\ [][Next]_vars

\* ------------------------------------------------------------ claims
RowsOfCoin(c) == {r \in Range(cache) : r.Coin = c}

\* C1: once the selection has run for a coin c of the dataset, coin_df holds
\* exactly the dataset rows whose Coin is c, in ascending Date order, whatever
\* the row order of the dataset, and the row used for the current price is the
\* row of c with the greatest Date.
C1_SelectSortedByDate ==
    (coin_df # 0 /\ NotNull(selected_coin)) =>
        LET rows == heap[coin_df].rows
            c == Val(selected_coin)
        IN /\ Range(rows) = RowsOfCoin(c)
           /\ Len(rows) = Cardinality(RowsOfCoin(c))
           /\ \A i \in 1..Len(rows) : rows[i].Coin = c
           /\ \A i, j \in 1..Len(rows) : i < j => rows[i].Date <= rows[j].Date
           /\ NotNull(latest)
           /\ Val(latest) \in RowsOfCoin(c)
           /\ \A r \in RowsOfCoin(c) : r.Date <= Val(latest).Date

\* C1 witness: the selected coin's rows come later-date-first in the dataset
\* and the selection has produced the current-price row.
C1_Witness ==
    /\ coin_df # 0 /\ NotNull(latest)
    /\ Len(heap[coin_df].rows) >= 3
    /\ \E i, j \in 1..Len(cache) :
          /\ i < j
          /\ cache[i].Coin = Val(selected_coin) /\ cache[j].Coin = Val(selected_coin)
          /\ cache[i].Date > cache[j].Date

\* C5: a produced forecast has one row per historical date of the coin plus
\* exactly 30 more: h + 30 rows with strictly increasing dates, the first h
\* being the historical dates and the last 30 the consecutive days after the
\* last historical date.
C5_ForecastCoversHorizon ==
    NotNull(forecast) =>
        LET f == Val(forecast)
            hist == Range(DateColumn(heap[coin_df].rows))
            h == Cardinality(hist)
            last == CHOOSE d \in hist : \A e \in hist : e <= d
        IN /\ h >= 2
           /\ Len(f) = h + 30
           /\ \A i \in 1..(Len(f) - 1) : f[i] < f[i + 1]
           /\ {f[i] : i \in 1..h} = hist
           /\ \A k \in 1..30 : f[h + k] = last + k

\* C5 witness: a forecast over a history of three dates, one of them without
\* a Close.
C5_Witness ==
    /\ NotNull(forecast)
    /\ "forecast" \in Range(out)
    /\ Len(heap[coin_df].rows) = 3
    /\ \E i \in 1..3 : IsNaN(heap[coin_df].rows[i].Close)
    /\ Len(Val(forecast)) = 3 + HorizonDays

\* C9: the loaded dataset keeps the rows, columns and index it had right after
\* loading, through every stage of every pass, the in-place re-indexing of
\* coin_df included.
C9_DatasetNotMutated ==
    df # 0 => heap[df] = Frame(cache)

\* C9 witness: after a coin selection and a toggle of the checkbox, a pass has
\* re-indexed coin_df in place and finished.
C9_Witness ==
    /\ pc = "done"
    /\ heap[coin_df].index = "Date"
    /\ "Date" \notin Range(heap[coin_df].columns)
    /\ selected_coin # Some(coins[1])
    /\ drop_na = FALSE

\* C10: the stages of a pass produce output in the fixed order, a stage that
\* raises ends the pass with no output of it or of any later stage, and after
\* a failed forecast there is no volatility table, view or recommendation.
Unset(stage, value) == stage \notin Range(out) => value = NaN
C10_FailureEndsPass ==
    /\ Len(out) <= Len(StageOrder)
    /\ \A i \in 1..Len(out) : out[i] = StageOrder[i]
    /\ NotNull(failed) => pc = "failed" /\ Val(failed) = StageOrder[Len(out) + 1]
    /\ pc = "failed" => NotNull(failed)
    /\ pc = "done" => out = StageOrder
    /\ pc \in Range(StageOrder) => pc = StageOrder[Len(out) + 1]
    /\ Unset("forecast", forecast)
    /\ Unset("volatility", volatility_df) /\ Unset("volatility", most_stable)
    /\ Unset("volatility", most_volatile) /\ Unset("volatility", recommended)
    /\ Unset("correlation", corr_matrix) /\ Unset("correlation", selected_corr)
    /\ "correlation" \notin Range(out) => ~warned
    /\ failed = Some("forecast") =>
          /\ out = <<"select", "trend">>
          /\ volatility_df = NaN /\ recommended = NaN

\* C10 witness: the forecast raised for the selected coin while another coin
\* of the dataset has enough closing prices.
C10_Witness ==
    /\ failed = Some("forecast")
    /\ pc = "failed"
    /\ \E c \in Range(coins) : ~FitFails(FilterCoin(cache, c))

\* --------------------------------------------- claims on the ranking
VolOf(r) == Val(r.Volatility)
Defined(t) == {i \in 1..Len(t) : NotNull(t[i].Volatility)}

\* r ranks strictly ahead of q among the stable (low first) or the volatile
\* (high first) coins; a null volatility ranks behind every defined one.
StrictlyBetter(r, q, stable) ==
    /\ NotNull(r.Volatility)
    /\ \/ IsNaN(q.Volatility)
       \/ IF stable THEN VolLess(VolOf(r), VolOf(q)) ELSE VolLess(VolOf(q), VolOf(r))

\* view is a top-n view of table t: n rows of t (all of them if t has fewer),
\* one per coin, in rank order, and no row left out ranks strictly ahead of a
\* row in the view.
TopView(view, t, n, stable) ==
    /\ Len(view) = Min(n, Len(t))
    /\ Range(view) \subseteq Range(t)
    /\ \A i, j \in 1..Len(view) : i # j => view[i].Coin # view[j].Coin
    /\ \A i, j \in 1..Len(view) : i < j => ~StrictlyBetter(view[j], view[i], stable)
    /\ \A r \in Range(t) \ Range(view) : \A q \in Range(view) : ~StrictlyBetter(r, q, stable)

\* C3: 'Most Stable Coins' is the 5 coins of smallest volatility in ascending
\* order and 'Most Volatile Coins' the 5 of largest volatility in descending
\* order; no coin outside a view has a strictly better volatility than one in it.
C3_TopViews ==
    NotNull(volatility_df) =>
        /\ TopView(Val(most_stable), Val(volatility_df), 5, TRUE)
        /\ TopView(Val(most_volatile), Val(volatility_df), 5, FALSE)

\* C3 witness: more coins than a view shows, at least six of them with a
\* defined volatility, and two different volatilities inside each view.
C3_Witness ==
    /\ NotNull(volatility_df)
    /\ Len(Val(volatility_df)) > HeadN
    /\ Cardinality(Defined(Val(volatility_df))) > HeadN
    /\ \E i, j \in 1..HeadN :
          VolLess(VolOf(Val(most_stable)[i]), VolOf(Val(most_stable)[j]))
    /\ \E i, j \in 1..HeadN :
          VolLess(VolOf(Val(most_volatile)[j]), VolOf(Val(most_volatile)[i]))

NaNLast(view) ==
    \A i, j \in 1..Len(view) :
        (i < j /\ IsNaN(view[i].Volatility)) => IsNaN(view[j].Volatility)

\* C4: a coin with a single observation has a null volatility, the ranking
\* does not raise, and in neither view does a coin of null volatility stand
\* ahead of a coin whose volatility is defined.
C4_SingleObservationLast ==
    /\ failed # Some("volatility")
    /\ NotNull(volatility_df) =>
          /\ \A r \in Range(Val(volatility_df)) :
                Cardinality(RowsOfCoin(r.Coin)) = 1 => IsNaN(r.Volatility)
          /\ NaNLast(Val(most_stable))
          /\ NaNLast(Val(most_volatile))

\* C4 witness: both views show a single-observation coin together with a coin
\* of defined volatility.
C4_Witness ==
    /\ NotNull(volatility_df)
    /\ \E r, q \in Range(Val(most_stable)) :
          Cardinality(RowsOfCoin(r.Coin)) = 1 /\ NotNull(q.Volatility)
    /\ \E r, q \in Range(Val(most_volatile)) :
          Cardinality(RowsOfCoin(r.Coin)) = 1 /\ NotNull(q.Volatility)

RecommendedRow == CHOOSE r \in Range(Val(volatility_df)) : r.Coin = Val(recommended)

\* The recommendation is the first row of 'Most Stable Coins', and every pass
\* that has shown a table and a recommendation has shown the same ones.
RankOneAndShared ==
    /\ NotNull(volatility_df)
    /\ Val(recommended) = Val(most_stable)[1].Coin
    /\ shown = {<<Val(volatility_df), recommended>>}

\* C8 as stated: the recommendation is the rank-1 coin of mostStable, a coin
\* of lowest defined volatility, the same for every selected coin and setting
\* of the checkbox.
C8_Original ==
    NotNull(recommended) =>
        /\ RankOneAndShared
        /\ NotNull(RecommendedRow.Volatility)
        /\ \A i \in Defined(Val(volatility_df)) :
              VolLeq(VolOf(RecommendedRow), VolOf(Val(volatility_df)[i]))

\* C8 amended: the recommendation is the rank-1 coin of mostStable, the same
\* in every pass that produces one; it is a coin of lowest defined volatility
\* when some coin's volatility is defined, and a coin of null volatility
\* otherwise.
C8_RecommendationRankOne ==
    NotNull(recommended) =>
        /\ RankOneAndShared
        /\ IF Defined(Val(volatility_df)) = {}
           THEN IsNaN(RecommendedRow.Volatility)
           ELSE /\ NotNull(RecommendedRow.Volatility)
                /\ \A i \in Defined(Val(volatility_df)) :
                      VolLeq(VolOf(RecommendedRow), VolOf(Val(volatility_df)[i]))

\* C8 witness: after another coin was selected and the checkbox toggled, a
\* pass recommends again, from a table with defined and null volatilities.
C8_Witness ==
    /\ NotNull(recommended)
    /\ selected_coin # Some(coins[1])
    /\ drop_na = FALSE
    /\ Defined(Val(volatility_df)) # {}
    /\ \E r \in Range(Val(volatility_df)) : IsNaN(r.Volatility)
    /\ Val(recommended) # Val(volatility_df)[1].Coin

\* ----------------------------------------- claims on the correlation
CoinsOfDataset == {cache[i].Coin : i \in 1..Len(cache)}
CoinsWithReturn == {cache[i].Coin : i \in {j \in 1..Len(cache) : NotNull(cache[j].Return)}}
MatrixColumns == Range(Val(pivot_df_clean).columns)

\* C2 as stated: the correlation step fails when the selected coin is not a
\* column of the return matrix, and every coin with at least one row is a column.
C2_Original ==
    NotNull(pivot_df_clean) =>
        /\ CoinsOfDataset \subseteq MatrixColumns
        /\ Val(selected_coin) \notin MatrixColumns => failed = Some("correlation")

\* C2 amended: the columns of the return matrix are exactly the coins with at
\* least one non-null Return; when the selected coin is not among them the
\* correlation step does not fail: it shows the warning, yields no correlation
\* vector and the pass goes on to the decomposition.
C2_UnknownCoinWarns ==
    NotNull(pivot_df_clean) =>
        /\ MatrixColumns = CoinsWithReturn
        /\ warned <=> Val(selected_coin) \notin MatrixColumns
        /\ warned <=> selected_corr = NaN
        /\ "correlation" \in Range(out)
        /\ failed # Some("correlation")
        /\ pc \in {"decompose", "done", "failed"}

\* C2 witness: the selected coin has rows, all with a null Return; the pass
\* warned and went on to finish the decomposition.
C2_Witness ==
    /\ pc = "done"
    /\ warned
    /\ RowsOfCoin(Val(selected_coin)) # {}
    /\ Val(selected_coin) \notin CoinsWithReturn
    /\ Len(Val(pivot_df_clean).columns) >= 2

\* C6: with 'drop incomplete' on, the selected coin's correlation vector is in
\* descending order, every coefficient lies in [-1, 1], and the selected coin
\* itself is absent from it or has the coefficient 1.
C6_SelectedCorrSorted ==
    (drop_na /\ NotNull(selected_corr)) =>
        LET v == Val(selected_corr)
        IN /\ \A i, j \in 1..Len(v) : i < j => CoefLeq(v[j].Coef, v[i].Coef)
           /\ \A i \in 1..Len(v) : CoefInUnitRange(v[i].Coef)
           /\ \A i \in 1..Len(v) : v[i].Coin = Val(selected_coin) => CoefIsOne(v[i].Coef)
           /\ \A i \in 1..Len(v) :
                 /\ v[i].Coin \in MatrixColumns
                 /\ Some(v[i].Coef) = Val(corr_matrix)[<<v[i].Coin, Val(selected_coin)>>]
           /\ \A c \in MatrixColumns :
                 NotNull(Val(corr_matrix)[<<c, Val(selected_coin)>>])
                     => \E i \in 1..Len(v) : v[i].Coin = c

\* C6 witness: a vector of three coefficients over complete dates: the coin's
\* own 1, a negative one and one strictly between 0 and 1.
C6_Witness ==
    /\ drop_na /\ NotNull(selected_corr)
    /\ Len(Val(selected_corr)) = 3
    /\ Len(Val(pivot_df_clean).index) >= 3
    /\ \E i \in 1..3 : Val(selected_corr)[i].Coef.num < 0
    /\ \E i \in 1..3 : LET a == Val(selected_corr)[i].Coef
                       IN a.num > 0 /\ a.num * a.num < a.den2

\* C6 witness of the other case: the selected coin's Returns are constant over
\* the complete dates, so it is absent from its own vector.
C6_WitnessAbsent ==
    /\ drop_na /\ NotNull(selected_corr)
    /\ Len(Val(pivot_df_clean).index) >= 2
    /\ \A i \in 1..Len(Val(selected_corr)) : Val(selected_corr)[i].Coin # Val(selected_coin)

\* C7: with 'drop incomplete' on and no date left after dropping, the
\* correlation step completes: every pair of the matrix has a null entry, the
\* selected coin's vector is empty, and nothing has failed.
C7_EmptyMatrixYieldsNulls ==
    (drop_na /\ NotNull(pivot_df_clean) /\ Val(pivot_df_clean).index = <<>>) =>
        /\ "correlation" \in Range(out)
        /\ failed # Some("correlation")
        /\ DOMAIN Val(corr_matrix) = MatrixColumns \X MatrixColumns
        /\ \A k \in MatrixColumns \X MatrixColumns : IsNaN(Val(corr_matrix)[k])
        /\ Val(selected_coin) \in MatrixColumns => selected_corr = Some(<<>>)

\* C7 witness: three coins have Returns, but no date has one for every coin;
\* the selected coin is a column and the pass has passed the correlation.
C7_Witness ==
    /\ drop_na /\ NotNull(pivot_df_clean)
    /\ Val(pivot_df_clean).index = <<>>
    /\ Len(Val(pivot_df_clean).columns) = 3
    /\ Val(selected_coin) \in MatrixColumns
    /\ pc = "done"

====
